---- MODULE Spec2Model ----
(***************************************************************************)
(* Avellaneda-Stoikov market-making simulator.                             *)
(*                                                                         *)
(*   Spec       : run_trajectory (src/src/sim.rs), one loop iteration in   *)
(*                two atomic steps: quote+push, then market+fills.         *)
(*   SweepSpec  : run_sweep (src/src/analysis.rs): the combinations, one   *)
(*                parallel task per combination, the indexed collect.      *)
(*   ReduceSpec : the reduction of one combination's runs (mean, standard  *)
(*                deviation, calculate_sharpe) as a function of the runs.  *)
(*                                                                         *)
(* Reals of the trajectory are fixed-point integers with FP units per 1.0  *)
(* (prices, cash, times, probabilities); inventory is a plain integer.     *)
(* Reals of the reduction are binary floating-point numbers with rounding  *)
(* and the IEEE special values, because what the reduction returns for     *)
(* degenerate inputs is decided by 0/0, x/0 and rounding.                  *)
(***************************************************************************)
EXTENDS Integers, Sequences, FiniteSets, TLC

VARIABLES
    \* ---- run_trajectory ----
    agent_params,   \* &Parameters
    config,         \* &SimConfig
    intensity_model,\* &dyn IntensityModel
    t, s, q, w,     \* time, mid price, inventory, cash
    quote_queue,    \* VecDeque<(ask, bid)>
    trajectory,     \* Vec<StepRecord>
    final_pnl,      \* SimResult.final_pnl (0 until the loop has ended)
    pc,             \* position inside run_trajectory
    askbid,         \* history of the (ask, bid) computed at each iteration
    hits,           \* history of (bid_hit, ask_hit) of each iteration
    pops,           \* history of pop_front: <<iteration, (ask, bid)>>
    \* ---- run_sweep ----
    sweep_config,   \* &SweepConfig
    combinations,   \* Vec<(gamma, sigma, k, drift)>
    results,        \* the slots of the indexed collect: index -> SweepResult
    overtaken,      \* a task has finished before one of a lower index
    returned,       \* the Vec<SweepResult> run_sweep returns
    spc,            \* position inside run_sweep
    \* ---- the reduction of one combination ----
    run_stats,      \* Vec<RunStats>
    reduced         \* <<>>, then <<SweepResult>>

trajVars == <<agent_params, config, intensity_model, t, s, q, w, quote_queue,
              trajectory, final_pnl, pc, askbid, hits, pops>>
sweepVars == <<sweep_config, combinations, results, overtaken, returned, spc>>
reduceVars == <<run_stats, reduced>>

vars == <<trajVars, sweepVars, reduceVars>>

----------------------------------------------------------------------------
(* Bounds of the model *)

MaxSteps == 3
MaxLatency == 2

(* Fixed-point scale of the f64 quantities of the trajectory *)
FP == 1000

Max(a, b) == IF a >= b THEN a ELSE b
Min(a, b) == IF a <= b THEN a ELSE b
Abs(a) == IF a >= 0 THEN a ELSE -a

(* a * b and a / b of two fixed-point reals *)
Mul(a, b) == (a * b) \div FP
Div(a, b) == (a * FP) \div b

(* the whole square root of n >= 0, by bisection: lo * lo <= n < hi * hi *)
RECURSIVE ISqrtIn(_, _, _)
ISqrtIn(n, lo, hi) ==
    IF hi - lo <= 1 THEN lo
    ELSE LET mid == (lo + hi) \div 2
         IN  IF mid * mid <= n THEN ISqrtIn(n, mid, hi) ELSE ISqrtIn(n, lo, mid)
ISqrt(n) == ISqrtIn(n, 0, Min(Max(n, 1), 46339) + 1)

(* f64::sqrt of a fixed-point real *)
Sqrt(a) == ISqrt(a * FP)

(* f64::ln of a fixed-point real a > 0, by ln a = 2 atanh((a-1)/(a+1)) *)
Ln(a) ==
    LET y == Div(a - FP, a + FP)
        y3 == Mul(Mul(y, y), y)
    IN  2 * (y + y3 \div 3)

(* f64::exp of -x for a fixed-point real x >= 0 *)
RECURSIVE ExpNeg(_)
ExpNeg(x) ==
    IF x <= FP \div 4
    THEN FP - x + Mul(x, x) \div 2 - Mul(Mul(x, x), x) \div 6
    ELSE LET h == ExpNeg(x \div 2) IN Mul(h, h)

(* f64::powf(-beta) for a whole beta >= 0 *)
RECURSIVE PowNeg(_, _)
PowNeg(base, beta) ==
    IF beta = 0 THEN FP ELSE Div(PowNeg(base, beta - 1), base)

----------------------------------------------------------------------------
(* model.rs *)

ExponentialIntensity(m, delta) ==
    Mul(m.a, ExpNeg(Mul(m.k, Max(delta, 0))))

PowerLawIntensity(m, delta) ==
    Mul(m.a, PowNeg(FP + Mul(m.k, Max(delta, 0)), m.beta))

calculate_intensity(m, delta) ==
    IF m.kind = "exponential"
    THEN ExponentialIntensity(m, delta)
    ELSE PowerLawIntensity(m, delta)

reservation_price(params, sp, qi, tm) ==
    sp - Mul(Mul(Mul(qi * params.gamma, params.sigma), params.sigma),
             params.t_horizon - tm)

optimal_spread(params, tm) ==
    LET sigma_sq == Mul(params.sigma, params.sigma)
    IN  Mul(Mul(params.gamma, sigma_sq), params.t_horizon - tm)
        + Mul(Div(2 * FP, params.gamma),
              Ln(FP + Div(params.gamma, params.k)))

quotes(r_price, spread) ==
    LET spread_half == spread \div 2
    IN  <<r_price + spread_half, r_price - spread_half>>

----------------------------------------------------------------------------
(* sim.rs: inputs *)

\* Parameters as the binary and the test build them: gamma 0.1, sigma 0.2,
\* T 1.0, k 1.5, a 140; dt 0.005, s_0 100, drift 0.
ParameterSet ==
    { [gamma |-> 100, sigma |-> 200, t_horizon |-> 1000, k |-> 1500,
       a |-> 140000] }

IntensityModels ==
    { [kind |-> "exponential", k |-> 1500, a |-> 140000, beta |-> 0],
      [kind |-> "powerlaw", k |-> 1500, a |-> 140000, beta |-> 2] }

SimConfigs ==
    { [dt |-> 5, num_steps |-> n, s_0 |-> 100000, drift |-> 0,
       latency_steps |-> l] : n \in 0..MaxSteps, l \in 0..MaxLatency }

\* StandardNormal samples (fixed-point) and uniform samples of [0, 1)
NormSamples == {-1000, 1000}
UniformSamples == {0, 999}

----------------------------------------------------------------------------
(* sim.rs: run_trajectory *)

StepRecord(time, mid_price, inventory, cash, wealth, bid_price, ask_price) ==
    [time |-> time, mid_price |-> mid_price, inventory |-> inventory,
     cash |-> cash, wealth |-> wealth,
     bid_price |-> bid_price, ask_price |-> ask_price]

\* the quotes of this iteration, from the current state
CurrentQuotes ==
    LET r == reservation_price(agent_params, s, q, t)
        spread == optimal_spread(agent_params, t)
    IN  quotes(r, spread)

\* EffectiveQuotes with `>=` for `>`: the front is popped one iteration early
EffectiveQuotesOffByOne(queue, latency_steps, ask, bid) ==
    IF latency_steps = 0
    THEN [eff |-> <<ask, bid>>, queue |-> queue, popped |-> FALSE]
    ELSE IF Len(queue) >= latency_steps
         THEN [eff |-> Head(queue), queue |-> Tail(queue), popped |-> TRUE]
         ELSE [eff |-> queue[Len(queue)], queue |-> queue, popped |-> FALSE]

\* EffectiveQuotes with front() for back() while the queue fills
EffectiveQuotesWarmFront(queue, latency_steps, ask, bid) ==
    IF latency_steps = 0
    THEN [eff |-> <<ask, bid>>, queue |-> queue, popped |-> FALSE]
    ELSE IF Len(queue) > latency_steps
         THEN [eff |-> Head(queue), queue |-> Tail(queue), popped |-> TRUE]
         ELSE [eff |-> Head(queue), queue |-> queue, popped |-> FALSE]

\* EffectiveQuotes with front() for pop_front(): the oldest pair stays queued
EffectiveQuotesPeek(queue, latency_steps, ask, bid) ==
    IF latency_steps = 0
    THEN [eff |-> <<ask, bid>>, queue |-> queue, popped |-> FALSE]
    ELSE IF Len(queue) > latency_steps
         THEN [eff |-> Head(queue), queue |-> queue, popped |-> FALSE]
         ELSE [eff |-> queue[Len(queue)], queue |-> queue, popped |-> FALSE]

\* lines 59-70: the effective (ask, bid), the queue left behind, and whether
\* the front was popped; `queue` already holds this iteration's pair
EffectiveQuotes(queue, latency_steps, ask, bid) ==
    IF latency_steps = 0
    THEN [eff |-> <<ask, bid>>, queue |-> queue, popped |-> FALSE]
    ELSE IF Len(queue) > latency_steps
         THEN [eff |-> Head(queue), queue |-> Tail(queue), popped |-> TRUE]
         ELSE [eff |-> queue[Len(queue)], queue |-> queue, popped |-> FALSE]

\* Wealth marked at the initial price instead of the current mid price
WealthAtInitialPrice(cash, inventory, mid_price) ==
    cash + inventory * config.s_0

\* line 72 and line 116
Wealth(cash, inventory, mid_price) == cash + inventory * mid_price

\* line 88
EvolvePrice(sp, norm_sample) ==
    LET return_innovation ==
            Mul(Mul(agent_params.sigma, Sqrt(config.dt)), norm_sample)
        drift_component == Mul(config.drift, config.dt)
    IN  Mul(sp, FP + drift_component + return_innovation)

\* ApplyFills with the two sides' prices swapped
ApplyFillsSwapped(qi, cash, bid_hit, ask_hit, effective_ask, effective_bid) ==
    LET q1 == IF bid_hit THEN qi + 1 ELSE qi
        w1 == IF bid_hit THEN cash - effective_ask ELSE cash
        q2 == IF ask_hit THEN q1 - 1 ELSE q1
        w2 == IF ask_hit THEN w1 + effective_bid ELSE w1
    IN  <<q2, w2>>

\* ApplyFills with `else if`: an ask fill is dropped when the bid filled
ApplyFillsExclusive(qi, cash, bid_hit, ask_hit, effective_ask, effective_bid) ==
    IF bid_hit THEN <<qi + 1, cash - effective_bid>>
    ELSE IF ask_hit THEN <<qi - 1, cash + effective_ask>>
    ELSE <<qi, cash>>

\* lines 103-111: inventory and cash after the fills
ApplyFills(qi, cash, bid_hit, ask_hit, effective_ask, effective_bid) ==
    LET q1 == IF bid_hit THEN qi + 1 ELSE qi
        w1 == IF bid_hit THEN cash - effective_bid ELSE cash
        q2 == IF ask_hit THEN q1 - 1 ELSE q1
        w2 == IF ask_hit THEN w1 + effective_ask ELSE w1
    IN  <<q2, w2>>

TrajInit ==
    /\ agent_params \in ParameterSet
    /\ config \in SimConfigs
    /\ intensity_model \in IntensityModels
    /\ t = 0
    /\ s = config.s_0
    /\ q = 0
    /\ w = 0
    /\ quote_queue = <<>>
    /\ trajectory = <<>>
    /\ final_pnl = 0
    /\ pc = "quote"
    /\ askbid = <<>>
    /\ hits = <<>>
    /\ pops = <<>>

\* lines 49-54: compute the quotes and push them
StepQuote ==
    /\ pc = "quote"
    /\ Len(trajectory) < config.num_steps
    /\ quote_queue' = Append(quote_queue, CurrentQuotes)
    /\ askbid' = Append(askbid, CurrentQuotes)
    /\ pc' = "market"
    /\ UNCHANGED <<agent_params, config, intensity_model, t, s, q, w,
                   trajectory, final_pnl, hits, pops>>
    /\ UNCHANGED <<sweepVars, reduceVars>>

\* lines 59-113: effective quotes, the record, the price move, the fills
StepMarket ==
    /\ pc = "market"
    /\ \E norm_sample \in NormSamples :
        LET ask == askbid[Len(askbid)][1]
            bid == askbid[Len(askbid)][2]
            e == EffectiveQuotes(quote_queue, config.latency_steps, ask, bid)
            effective_ask == e.eff[1]
            effective_bid == e.eff[2]
            wealth == Wealth(w, q, s)
            s_new == EvolvePrice(s, norm_sample)
            delta_bid == s_new - effective_bid
            delta_ask == effective_ask - s_new
            lambda_bid == calculate_intensity(intensity_model, delta_bid)
            lambda_ask == calculate_intensity(intensity_model, delta_ask)
            prob_bid_fill == Mul(lambda_bid, config.dt)
            prob_ask_fill == Mul(lambda_ask, config.dt)
        IN  /\ quote_queue' = e.queue
            /\ pops' = IF e.popped
                       THEN Append(pops, <<Len(trajectory), e.eff>>)
                       ELSE pops
            /\ trajectory' = Append(trajectory,
                   StepRecord(t, s, q, w, wealth, effective_bid, effective_ask))
            /\ s' = s_new
            /\ \E u_bid \in UniformSamples, u_ask \in UniformSamples :
                LET bid_hit == u_bid < prob_bid_fill
                    ask_hit == u_ask < prob_ask_fill
                    qw == ApplyFills(q, w, bid_hit, ask_hit,
                                     effective_ask, effective_bid)
                IN  /\ hits' = Append(hits, <<bid_hit, ask_hit>>)
                    /\ q' = qw[1]
                    /\ w' = qw[2]
            /\ t' = t + config.dt
    /\ pc' = "quote"
    /\ UNCHANGED <<agent_params, config, intensity_model, final_pnl, askbid>>
    /\ UNCHANGED <<sweepVars, reduceVars>>

\* lines 116-121: the loop has ended
Finish ==
    /\ pc = "quote"
    /\ Len(trajectory) = config.num_steps
    /\ final_pnl' = Wealth(w, q, s)
    /\ pc' = "done"
    /\ UNCHANGED <<agent_params, config, intensity_model, t, s, q, w,
                   quote_queue, trajectory, askbid, hits, pops>>
    /\ UNCHANGED <<sweepVars, reduceVars>>

----------------------------------------------------------------------------
(* f64 arithmetic of the reduction in analysis.rs: binary floating point   *)
(* with a MantBits-bit significand, round to nearest, ties to even, and    *)
(* the IEEE 754 special values.  A finite value is m * 2^e with m = 0 or   *)
(* 2^(MantBits-1) <= |m| < 2^MantBits; the exponent is not bounded and the *)
(* sign of zero is not kept.                                               *)

MantBits == 3

RECURSIVE Pow2(_)
Pow2(n) == IF n <= 0 THEN 1 ELSE 2 * Pow2(n - 1)

RECURSIVE BitLen(_)
BitLen(a) == IF a = 0 THEN 0 ELSE 1 + BitLen(a \div 2)

Sign(n) == IF n < 0 THEN -1 ELSE 1

NaN == [kind |-> "nan", m |-> 0, e |-> 0]
Inf(sign) == [kind |-> "inf", m |-> sign, e |-> 0]
Zero == [kind |-> "num", m |-> 0, e |-> 0]

IsNaN(x) == x.kind = "nan"
IsInf(x) == x.kind = "inf"
IsFinite(x) == x.kind = "num"

\* a * 2^e for a > 0 (the exact value lying above it by less than one unit
\* of a when `sticky`), rounded to MantBits bits: <<significand, exponent>>
RoundMag(a, e, sticky) ==
    LET len == BitLen(a)
    IN  IF len <= MantBits
        THEN <<a * Pow2(MantBits - len), e - (MantBits - len)>>
        ELSE LET k == len - MantBits
                 qt == a \div Pow2(k)
                 r == a % Pow2(k)
                 half == Pow2(k - 1)
                 up == \/ r > half
                       \/ r = half /\ (sticky \/ qt % 2 = 1)
                 q1 == IF up THEN qt + 1 ELSE qt
             IN  IF q1 = Pow2(MantBits)
                 THEN <<Pow2(MantBits - 1), e + k + 1>>
                 ELSE <<q1, e + k>>

\* the f64 nearest to n * 2^e
FRound(n, e, sticky) ==
    IF n = 0 THEN Zero
    ELSE LET r == RoundMag(Abs(n), e, sticky)
         IN  [kind |-> "num", m |-> Sign(n) * r[1], e |-> r[2]]

\* the literal n * 2^e, and `i as f64`
F(n, e) == FRound(n, e, FALSE)
FromInt(i) == FRound(i, 0, FALSE)

FNeg(x) == IF IsNaN(x) THEN NaN ELSE [x EXCEPT !.m = -x.m]

FAdd(x, y) ==
    IF IsNaN(x) \/ IsNaN(y) THEN NaN
    ELSE IF IsInf(x) THEN (IF IsInf(y) /\ y.m # x.m THEN NaN ELSE x)
    ELSE IF IsInf(y) THEN y
    ELSE IF x.m = 0 THEN y
    ELSE IF y.m = 0 THEN x
    ELSE LET e == Min(x.e, y.e)
         IN  FRound(x.m * Pow2(x.e - e) + y.m * Pow2(y.e - e), e, FALSE)

FSub(x, y) == FAdd(x, FNeg(y))

FMul(x, y) ==
    IF IsNaN(x) \/ IsNaN(y) THEN NaN
    ELSE IF IsInf(x) \/ IsInf(y)
         THEN (IF x.m = 0 \/ y.m = 0 THEN NaN ELSE Inf(Sign(x.m) * Sign(y.m)))
    ELSE FRound(x.m * y.m, x.e + y.e, FALSE)

FDiv(x, y) ==
    IF IsNaN(x) \/ IsNaN(y) THEN NaN
    ELSE IF IsInf(x)
         THEN (IF IsInf(y) THEN NaN ELSE Inf(Sign(x.m) * Sign(y.m)))
    ELSE IF IsInf(y) THEN Zero
    ELSE IF y.m = 0 THEN (IF x.m = 0 THEN NaN ELSE Inf(Sign(x.m)))
    ELSE IF x.m = 0 THEN Zero
    ELSE LET num == Abs(x.m) * Pow2(MantBits + 2)
             qt == num \div Abs(y.m)
             sticky == num % Abs(y.m) # 0
         IN  FRound(Sign(x.m) * Sign(y.m) * qt,
                    x.e - y.e - (MantBits + 2), sticky)

FSqrt(x) ==
    IF IsNaN(x) THEN NaN
    ELSE IF IsInf(x) THEN (IF x.m < 0 THEN NaN ELSE x)
    ELSE IF x.m < 0 THEN NaN
    ELSE IF x.m = 0 THEN Zero
    ELSE LET sh == IF (x.e - 2 * MantBits) % 2 = 0
                   THEN 2 * MantBits + 4 ELSE 2 * MantBits + 3
             num == x.m * Pow2(sh)
             root == ISqrt(num)
         IN  FRound(root, (x.e - sh) \div 2, root * root # num)

\* f64::powi(2)
FSquare(x) == FMul(x, x)

\* ==, < of f64 (false when an operand is NaN)
FEq(x, y) == ~IsNaN(x) /\ ~IsNaN(y) /\ x = y

FLt(x, y) ==
    /\ ~IsNaN(x) /\ ~IsNaN(y)
    /\ IF IsInf(x) THEN x.m < 0 /\ y # x
       ELSE IF IsInf(y) THEN y.m > 0
       ELSE LET e == Min(x.e, y.e)
            IN  x.m * Pow2(x.e - e) < y.m * Pow2(y.e - e)

\* Iterator::sum::<f64>() of a sequence, front to back
RECURSIVE FSumFrom(_, _, _)
FSumFrom(acc, xs, i) ==
    IF i > Len(xs) THEN acc ELSE FSumFrom(FAdd(acc, xs[i]), xs, i + 1)
FSum(xs) == FSumFrom(Zero, xs, 1)

----------------------------------------------------------------------------
(* analysis.rs: inputs *)

MaxGrid == 2
MaxComb == 4
MaxSamples == 3

\* candidate values of the four grids (fixed-point), as the binary and the
\* test list them: a grid is a prefix of its list
GammaValues == <<10, 100, 50, 500>>
SigmaValues == <<200, 400, 100>>
KValues == <<1500, 3000, 750>>
DriftValues == <<0, 50, -50>>

IterationCounts == {0, 1, 2}
StepCounts == {0, 1, 3}

SweepConfigs ==
    { [gammas |-> SubSeq(GammaValues, 1, ng),
       sigmas |-> SubSeq(SigmaValues, 1, ns),
       ks |-> SubSeq(KValues, 1, nk),
       drifts |-> SubSeq(DriftValues, 1, nd),
       sim_config |-> [dt |-> 5, num_steps |-> steps, s_0 |-> 100000,
                       drift |-> 0, latency_steps |-> 0],
       iterations_per_param |-> n] :
         ng \in 0..MaxGrid, ns \in 0..MaxGrid, nk \in 0..MaxGrid,
         nd \in 0..MaxGrid, steps \in StepCounts, n \in IterationCounts }

\* What run_trajectory returns to run_sweep, as far as run_sweep reads it:
\* num_steps records, the first with inventory 0 and each next one within 1
\* of the one before, and a final P&L; with num_steps = 0 no record and a
\* final P&L of 0 + 0 * s_0.  Two runs are sampled: one that buys in every
\* iteration and one that sells in every iteration.
RunResults(sim_config) ==
    IF sim_config.num_steps = 0
    THEN { [trajectory |-> <<>>, final_pnl |-> Zero] }
    ELSE { [trajectory |-> [i \in 1..sim_config.num_steps |->
                               [inventory |-> side * (i - 1)]],
            final_pnl |-> IF side = 1 THEN F(3, -1) ELSE F(-1, 0)] :
           side \in {-1, 1} }

\* the sequences of length n over the set S
RECURSIVE SeqsOf(_, _)
SeqsOf(S, n) ==
    IF n = 0 THEN { <<>> }
    ELSE { Append(xs, x) : xs \in SeqsOf(S, n - 1), x \in S }

\* P&L samples of the reduction: 0, 1.5, -1, 1.25
PnlSamples == { Zero, F(3, -1), F(-1, 0), F(5, -2) }

----------------------------------------------------------------------------
(* analysis.rs: calculate_sharpe and run_sweep *)

One == FromInt(1)
Two == FromInt(2)

\* lines 31-41
calculate_sharpe(pnls) ==
    LET n == FromInt(Len(pnls))
        mean == FDiv(FSum(pnls), n)
        SqDev(x) == FSquare(FSub(x, mean))
        variance == FDiv(FSum([i \in 1..Len(pnls) |-> SqDev(pnls[i])]), FSub(n, One))
        std_dev == FSqrt(variance)
    IN  IF FLt(n, Two) THEN Zero
        ELSE IF FEq(std_dev, Zero) THEN Zero ELSE FDiv(mean, std_dev)

RECURSIVE MaxAbsFrom(_, _, _)
MaxAbsFrom(best, traj, i) ==
    IF i > Len(traj) THEN best
    ELSE MaxAbsFrom(Max(best, Abs(traj[i].inventory)), traj, i + 1)

\* lines 84-107: the RunStats of one SimResult
RunStatsOf(res) ==
    LET AbsInventory(rec) == FromInt(Abs(rec.inventory))
    IN  [pnl |-> res.final_pnl,
         mean_abs_q |-> FDiv(FSum([i \in 1..Len(res.trajectory) |->
                                     AbsInventory(res.trajectory[i])]),
                             FromInt(Len(res.trajectory))),
         max_q |-> FromInt(MaxAbsFrom(0, res.trajectory, 1)),
         final_q |-> IF Len(res.trajectory) = 0 THEN Zero
                     ELSE FromInt(res.trajectory[Len(res.trajectory)].inventory)]

\* lines 111-145: the SweepResult of one combination from its runs
Reduce(comb, stats) ==
    LET n == FromInt(Len(stats))
        pnls == [i \in 1..Len(stats) |-> stats[i].pnl]
        final_qs == [i \in 1..Len(stats) |-> stats[i].final_q]
        mean_pnl == FDiv(FSum(pnls), n)
        PnlSqDev(x) == FSquare(FSub(x, mean_pnl))
        pnl_variance == FDiv(FSum([i \in 1..Len(pnls) |-> PnlSqDev(pnls[i])]), FSub(n, One))
        terminal_inv_mean == FDiv(FSum(final_qs), n)
        InvSqDev(x) == FSquare(FSub(x, terminal_inv_mean))
        terminal_inv_var ==
            FDiv(FSum([i \in 1..Len(final_qs) |-> InvSqDev(final_qs[i])]),
                 FSub(n, One))
    IN  [gamma |-> comb[1], sigma |-> comb[2], k |-> comb[3], drift |-> comb[4],
         mean_pnl |-> mean_pnl,
         std_pnl |-> FSqrt(pnl_variance),
         sharpe_ratio |-> calculate_sharpe(pnls),
         max_drawdown |-> Zero,
         mean_abs_inventory |-> FDiv(FSum([i \in 1..Len(stats) |-> stats[i].mean_abs_q]), n),
         max_inventory |-> FDiv(FSum([i \in 1..Len(stats) |-> stats[i].max_q]), n),
         terminal_inventory_mean |-> terminal_inv_mean,
         terminal_inventory_std |-> FSqrt(terminal_inv_var)]

RECURSIVE Flatten(_)
Flatten(seqs) == IF seqs = <<>> THEN <<>> ELSE Head(seqs) \o Flatten(Tail(seqs))

\* iproduct! read the other way round: drifts outermost, gammas innermost
CombinationsDriftsOutermost(sc) ==
    Flatten([d \in 1..Len(sc.drifts) |->
      Flatten([k \in 1..Len(sc.ks) |->
        Flatten([sg \in 1..Len(sc.sigmas) |->
          [g \in 1..Len(sc.gammas) |->
             <<sc.gammas[g], sc.sigmas[sg], sc.ks[k], sc.drifts[d]>>]])])])

\* lines 49-56: iproduct!(gammas, sigmas, ks, drifts), the last fastest
Combinations(sc) ==
    Flatten([g \in 1..Len(sc.gammas) |->
      Flatten([sg \in 1..Len(sc.sigmas) |->
        Flatten([k \in 1..Len(sc.ks) |->
          [d \in 1..Len(sc.drifts) |->
             <<sc.gammas[g], sc.sigmas[sg], sc.ks[k], sc.drifts[d]>>]])])])

SweepInit ==
    /\ sweep_config \in SweepConfigs
    /\ Len(sweep_config.gammas) * Len(sweep_config.sigmas)
         * Len(sweep_config.ks) * Len(sweep_config.drifts) <= MaxComb
    /\ combinations = <<>>
    /\ results = <<>>
    /\ overtaken = FALSE
    /\ returned = <<>>
    /\ spc = "start"

\* lines 49-56
SweepStart ==
    /\ spc = "start"
    /\ combinations' = Combinations(sweep_config)
    /\ spc' = "running"
    /\ UNCHANGED <<sweep_config, results, overtaken, returned>>
    /\ UNCHANGED <<trajVars, reduceVars>>

\* lines 61-146: the closure of par_iter().map(), run on combination i by
\* whichever worker takes it
SweepTask(i) ==
    /\ spc = "running"
    /\ i \in 1..Len(combinations)
    /\ i \notin DOMAIN results
    /\ LET current_sim_config ==
               [sweep_config.sim_config EXCEPT !.drift = combinations[i][4]]
       IN  \E runs \in SeqsOf(RunResults(current_sim_config),
                             sweep_config.iterations_per_param) :
               results' = (i :> Reduce(combinations[i],
                                       [r \in 1..Len(runs) |-> RunStatsOf(runs[r])]))
                          @@ results
    /\ overtaken' = (overtaken \/ \E j \in 1..(i - 1) : j \notin DOMAIN results)
    /\ UNCHANGED <<sweep_config, combinations, returned, spc>>
    /\ UNCHANGED <<trajVars, reduceVars>>

\* lines 147-149: collect() of an indexed parallel iterator fills slot i
\* with the result of item i; run_sweep returns the slots in order
SweepCollect ==
    /\ spc = "running"
    /\ DOMAIN results = 1..Len(combinations)
    /\ returned' = [i \in 1..Len(combinations) |-> results[i]]
    /\ spc' = "returned"
    /\ UNCHANGED <<sweep_config, combinations, results, overtaken>>
    /\ UNCHANGED <<trajVars, reduceVars>>

\* the runs of one combination, as the reduction receives them
ReduceInit ==
    /\ run_stats \in UNION { SeqsOf({ [pnl |-> x, mean_abs_q |-> Zero,
                                       max_q |-> Zero, final_q |-> Zero] :
                                      x \in PnlSamples }, n) :
                             n \in 0..MaxSamples }
    /\ reduced = <<>>

\* lines 111-145 on these runs
ReduceRuns ==
    /\ reduced = <<>>
    /\ reduced' = << Reduce(<<100, 200, 1500, 0>>, run_stats) >>
    /\ UNCHANGED run_stats
    /\ UNCHANGED <<trajVars, sweepVars>>

----------------------------------------------------------------------------
(* The specifications.  Each runs one part; the other parts stand still.   *)

TrajIdle ==
    /\ agent_params \in ParameterSet
    /\ config = [dt |-> 5, num_steps |-> 0, s_0 |-> 100000, drift |-> 0,
                 latency_steps |-> 0]
    /\ intensity_model = [kind |-> "exponential", k |-> 1500, a |-> 140000,
                          beta |-> 0]
    /\ t = 0 /\ s = 0 /\ q = 0 /\ w = 0
    /\ quote_queue = <<>> /\ trajectory = <<>> /\ final_pnl = 0
    /\ pc = "idle"
    /\ askbid = <<>> /\ hits = <<>> /\ pops = <<>>

SweepIdle ==
    /\ sweep_config = [gammas |-> <<>>, sigmas |-> <<>>, ks |-> <<>>,
                       drifts |-> <<>>,
                       sim_config |-> [dt |-> 5, num_steps |-> 0,
                                       s_0 |-> 100000, drift |-> 0,
                                       latency_steps |-> 0],
                       iterations_per_param |-> 0]
    /\ combinations = <<>>
    /\ results = <<>>
    /\ overtaken = FALSE
    /\ returned = <<>>
    /\ spc = "idle"

ReduceIdle ==
    /\ run_stats = <<>>
    /\ reduced = <<>>

Init == TrajInit /\ SweepIdle /\ ReduceIdle
InitSweep == TrajIdle /\ SweepInit /\ ReduceIdle
InitReduce == TrajIdle /\ SweepIdle /\ ReduceInit

Next ==
    \/ StepQuote
    \/ StepMarket
    \/ Finish

Spec == Init /\ [][Next]_vars

SweepNext ==
    \/ SweepStart
    \/ \E i \in 1..MaxComb : SweepTask(i)
    \/ SweepCollect

SweepSpec == InitSweep /\ [][SweepNext]_vars

ReduceNext == ReduceRuns

ReduceSpec == InitReduce /\ [][ReduceNext]_vars

----------------------------------------------------------------------------
(* Properties of run_trajectory.  Iteration i of the loop (i = 0, 1, ...)  *)
(* is entry i + 1 of trajectory, askbid and hits.                          *)

Latency == config.latency_steps
BoolInt(b) == IF b THEN 1 ELSE 0

EffectiveOf(i) == <<trajectory[i].ask_price, trajectory[i].bid_price>>
\* inventory and cash once iteration i - 1 has ended
InventoryAfter(i) == IF i < Len(trajectory) THEN trajectory[i + 1].inventory ELSE q
CashAfter(i) == IF i < Len(trajectory) THEN trajectory[i + 1].cash ELSE w
BidHit(i) == hits[i][1]
AskHit(i) == hits[i][2]

\* C1: with latency_steps = L > 0, the effective quotes recorded at every
\* iteration i >= L, and the prices its fills trade at, are the (ask, bid)
\* computed and pushed at iteration i - L.
C1_DelayedQuotes ==
    \A i \in 1..Len(trajectory) :
        (Latency > 0 /\ i - 1 >= Latency) =>
            /\ EffectiveOf(i) = askbid[i - Latency]
            /\ CashAfter(i) - trajectory[i].cash
                 = BoolInt(AskHit(i)) * askbid[i - Latency][1]
                   - BoolInt(BidHit(i)) * askbid[i - Latency][2]

\* a fill at a delayed iteration whose effective quote is not the fresh one
C1_Witness ==
    \E i \in 1..Len(trajectory) :
        /\ Latency > 0 /\ i - 1 >= Latency
        /\ askbid[i - Latency] # askbid[i]
        /\ BidHit(i) /\ ~AskHit(i)

\* C2: with latency_steps = 0 at every iteration, and with latency_steps = L
\* at every iteration i < L, the effective quotes are the ones computed in
\* that iteration, and that iteration pops nothing.
C2_WarmUpQuotes ==
    \A i \in 1..Len(trajectory) :
        (Latency = 0 \/ i - 1 < Latency) =>
            /\ EffectiveOf(i) = askbid[i]
            /\ \A k \in 1..Len(pops) : pops[k][1] # i - 1

\* a second warm-up iteration whose quotes differ from the queue's front
C2_Witness ==
    /\ Latency = 2
    /\ Len(trajectory) >= 2
    /\ askbid[2] # askbid[1]
    /\ EffectiveOf(2) = askbid[2]

\* C3: every StepRecord has wealth = cash + inventory * mid_price.
C3_WealthIdentity ==
    \A i \in 1..Len(trajectory) :
        trajectory[i].wealth
            = trajectory[i].cash + trajectory[i].inventory * trajectory[i].mid_price

\* a record with an open position, after the price has moved
C3_Witness ==
    \E i \in 1..Len(trajectory) :
        /\ trajectory[i].inventory # 0
        /\ trajectory[i].cash # 0
        /\ trajectory[i].mid_price # config.s_0

\* C4: in every iteration inventory changes by (bid fill) - (ask fill) and
\* cash by (ask fill) * effective ask - (bid fill) * effective bid, with the
\* effective quotes of that iteration's record; no fill, no change.
C4_FillAccounting ==
    \A i \in 1..Len(trajectory) :
        /\ InventoryAfter(i) - trajectory[i].inventory
             = BoolInt(BidHit(i)) - BoolInt(AskHit(i))
        /\ CashAfter(i) - trajectory[i].cash
             = BoolInt(AskHit(i)) * trajectory[i].ask_price
               - BoolInt(BidHit(i)) * trajectory[i].bid_price

\* a bid fill, an ask fill and an idle iteration in one run, one of the
\* fills at a delayed quote that is not the fresh one
C4_Witness ==
    /\ \E i \in 1..Len(trajectory) : BidHit(i) /\ ~AskHit(i)
                                     /\ EffectiveOf(i) # askbid[i]
    /\ \E i \in 1..Len(trajectory) : AskHit(i) /\ ~BidHit(i)
    /\ \E i \in 1..Len(trajectory) : ~AskHit(i) /\ ~BidHit(i)

\* C5 as stated: an iteration with both fills changes inventory by an
\* amount outside {-1, 0, 1}, every change lying in -2..2.
C5_BothFillsLeaveUnitRange ==
    \A i \in 1..Len(trajectory) :
        /\ InventoryAfter(i) - trajectory[i].inventory \in -2..2
        /\ (BidHit(i) /\ AskHit(i)) =>
               InventoryAfter(i) - trajectory[i].inventory \notin {-1, 0, 1}

\* C5, amended: the change of inventory in one iteration always lies in
\* {-1, 0, 1}; both fills in one iteration cancel to a change of 0 (and
\* move cash by effective ask - effective bid).
C5_ChangeWithinUnitRange ==
    \A i \in 1..Len(trajectory) :
        /\ InventoryAfter(i) - trajectory[i].inventory \in {-1, 0, 1}
        /\ (BidHit(i) /\ AskHit(i)) =>
               /\ InventoryAfter(i) = trajectory[i].inventory
               /\ CashAfter(i) - trajectory[i].cash
                    = trajectory[i].ask_price - trajectory[i].bid_price

\* an iteration in which both sides filled
C5_Witness ==
    \E i \in 1..Len(trajectory) : BidHit(i) /\ AskHit(i)

\* C10: with latency_steps = L > 0 the queue never holds more than L + 1
\* pairs; once iteration i has ended it holds the min(i + 1, L) most recent
\* pairs in issue order; the pairs popped so far followed by the queue are
\* the pairs pushed so far, in order (FIFO, each popped at most once); and
\* the k-th pop happens in iteration k - 1 + L, as its effective quote.
C10_LatencyQueue ==
    Latency > 0 =>
        /\ Len(quote_queue) <= Latency + 1
        /\ [k \in 1..Len(pops) |-> pops[k][2]] \o quote_queue = askbid
        /\ (pc \in {"quote", "done"} /\ Len(trajectory) >= 1) =>
              LET n == Len(trajectory)
                  held == Min(n, Latency)
              IN  /\ Len(quote_queue) = held
                  /\ quote_queue = SubSeq(askbid, n - held + 1, n)
        /\ \A k \in 1..Len(pops) :
              /\ pops[k][1] = k - 1 + Latency
              /\ pops[k][1] + 1 <= Len(trajectory)
              /\ EffectiveOf(pops[k][1] + 1) = pops[k][2]

\* a full queue (L + 1 distinct pairs, before the pop) after an earlier pop
C10_Witness ==
    /\ Latency >= 1
    /\ pc = "market"
    /\ Len(quote_queue) = Latency + 1
    /\ Len(pops) >= 1
    /\ Cardinality({quote_queue[k] : k \in 1..Len(quote_queue)}) = Latency + 1
    /\ pops[1][2] # quote_queue[1]

----------------------------------------------------------------------------
(* Properties of run_sweep and of the reduction.                           *)

Iterations == sweep_config.iterations_per_param
Tags(res) == <<res.gamma, res.sigma, res.k, res.drift>>

\* the i-th combination of the nested enumeration, gammas outermost and
\* drifts innermost, by the digits of i - 1 in the mixed radix of the grids
NestedCombination(i) ==
    LET nd == Len(sweep_config.drifts)
        nk == Len(sweep_config.ks)
        ns == Len(sweep_config.sigmas)
        j == i - 1
    IN  << sweep_config.gammas[(j \div (nd * nk * ns)) + 1],
           sweep_config.sigmas[((j \div (nd * nk)) % ns) + 1],
           sweep_config.ks[((j \div nd) % nk) + 1],
           sweep_config.drifts[(j % nd) + 1] >>

\* C6: run_sweep returns |gammas| * |sigmas| * |ks| * |drifts| results, the
\* one at index i tagged with the i-th combination of the nested
\* enumeration, and every combination of the grids tags exactly one result,
\* in whatever order the tasks finished.
C6_SweepOrder ==
    spc = "returned" =>
        /\ Len(returned) = Len(sweep_config.gammas) * Len(sweep_config.sigmas)
                           * Len(sweep_config.ks) * Len(sweep_config.drifts)
        /\ \A i \in 1..Len(returned) : Tags(returned[i]) = NestedCombination(i)
        /\ \A g \in 1..Len(sweep_config.gammas),
              sg \in 1..Len(sweep_config.sigmas),
              k \in 1..Len(sweep_config.ks),
              d \in 1..Len(sweep_config.drifts) :
              Cardinality({ i \in 1..Len(returned) :
                  Tags(returned[i]) = << sweep_config.gammas[g],
                                         sweep_config.sigmas[sg],
                                         sweep_config.ks[k],
                                         sweep_config.drifts[d] >> }) = 1

\* a 2 x 1 x 1 x 2 sweep returned after its tasks finished out of order
C6_Witness ==
    /\ spc = "returned"
    /\ overtaken
    /\ Len(sweep_config.gammas) = 2
    /\ Len(sweep_config.drifts) = 2
    /\ Len(returned) = 4

\* C7: a sweep with iterations_per_param < 2 returns no SweepResult, and no
\* returned SweepResult has a NaN std_pnl, mean_pnl or
\* terminal_inventory_std.
C7_FewIterationsRejected ==
    spc = "returned" =>
        /\ Iterations < 2 => returned = <<>>
        /\ \A i \in 1..Len(returned) :
              /\ ~IsNaN(returned[i].std_pnl)
              /\ ~IsNaN(returned[i].mean_pnl)
              /\ ~IsNaN(returned[i].terminal_inventory_std)

\* C8: the mean_abs_inventory of a returned SweepResult is never the 0/0
\* of an empty trajectory (with at least two runs per combination, so that
\* the division by the number of runs is not what is undefined).
C8_EmptyTrajectoryHandled ==
    (spc = "returned" /\ Iterations >= 2) =>
        \A i \in 1..Len(returned) : ~IsNaN(returned[i].mean_abs_inventory)

PnlsOf(stats) == [i \in 1..Len(stats) |-> stats[i].pnl]
AllIdentical(xs) == \A i, j \in 1..Len(xs) : xs[i] = xs[j]

\* C9: the sharpe_ratio of the reduction is 0 for fewer than two samples,
\* 0 when all samples are identical, and otherwise mean_pnl / std_pnl of
\* the same SweepResult; in the degenerate cases it is a finite number.
C9_SharpeRatio ==
    reduced # <<>> =>
        LET res == reduced[1]
            pnls == PnlsOf(run_stats)
            n == Len(pnls)
        IN  /\ n < 2 => res.sharpe_ratio = Zero
            /\ (n >= 2 /\ AllIdentical(pnls)) => res.sharpe_ratio = Zero
            /\ (n >= 2 /\ ~AllIdentical(pnls)) =>
                   res.sharpe_ratio = FDiv(res.mean_pnl, res.std_pnl)
            /\ (n < 2 \/ AllIdentical(pnls)) => IsFinite(res.sharpe_ratio)

====
